---- MODULE Spec2Model ----
(***************************************************************************)
(* State-machine model of the MerkleTree class and the Hashing namespace   *)
(* of merkletree-js (the revision with the dirty flag, the cached root and *)
(* compareWith).  Two tree instances are kept so that compareWith and the  *)
(* claims relating two trees can be exercised.  Every async method is a   *)
(* call step followed by the jobs of its awaits, on either of the two job  *)
(* orders a runtime gives an await.  Calls are awaited in Spec and         *)
(* SpecPair and left unawaited in SpecAsync.                               *)
(*                                                                         *)
(* Strings are TLA+ strings and + on strings is \o.  The SHA-512 digest is *)
(* a free symbol: the digest of the bytes of a text t is rendered as the   *)
(* string "H(" t ")", so that two digests are equal exactly when the texts *)
(* hashed are equal (a collision-free hash).  The bytes the TextEncoder    *)
(* produces are represented by the text they encode.                       *)
(***************************************************************************)
EXTENDS Integers, Sequences, FiniteSets, TLC

\* ---------------------------------------------------------------- bounds
\* Largest number of leaves addNode/addNodes/createWith may build up.
MaxLeaves == 5
\* Largest number of items handed to one addNodes/createWith call.
MaxBatch == 2
\* Largest number of leaves a tree is built up to when two trees are compared.
MaxPairLeaves == 3
\* Largest number of leaves built up while calls are left unawaited.
MaxAsyncLeaves == 5
\* Largest number of calls pending at a time when calls are left unawaited.
MaxPending == 2
\* The leaves an unawaited addNodes is called to bring the tree to.
MaxAsyncBatchLeaves == 3

\* ---------------------------------------------------------------- data
\* The tree instances of the model.
Trees == {1, 2}

\* JavaScript values handed to the tree: the number 1, the string "1",
\* the string made of the digest of the number 1 written twice (the text
\* buildLayer hashes for a pair of such leaves), the three kinds of value
\* hashFrom rejects, and an object that contains itself (JSON.stringify
\* throws a TypeError on it, as it does on a BigInt).
Num1 == [kind |-> "number", text |-> "1"]
Str1 == [kind |-> "string", text |-> "1"]
Joined == [kind |-> "string", text |-> "H(1)H(1)"]
Undef == [kind |-> "undefined", text |-> ""]
Null == [kind |-> "null", text |-> ""]
Fn == [kind |-> "function", text |-> ""]
Cyclic == [kind |-> "cyclic", text |-> ""]

\* The values hashFrom returns a digest for, those its guard rejects and
\* those that pass the guard and make JSON.stringify throw.
Hashable == {Num1, Str1, Joined}
Unhashable == {Undef, Null, Fn}
Unserialisable == {Cyclic}
Data == Hashable \cup Unhashable \cup Unserialisable
\* The values addNode is called with on the single tree.
SingleData == {Num1, Str1} \cup Unhashable \cup Unserialisable
\* The values the arrays given to addNodes and createWith are made of.
BatchData == {Num1, Str1, Undef, Cyclic}
\* The values the trees compared with each other are built from.
PairData == {Num1, Joined}

\* A JavaScript string value as a datum.
Str(s) == [kind |-> "string", text |-> s]

\* Sequences over S of length 0..n.
SeqUpTo(S, n) == UNION {[1..k -> S] : k \in 0..n}

\* ---------------------------------------------------------------- Hashing
\* JSON.stringify: a number prints as its digits, a string is quoted,
\* null prints as null; for undefined and for a function the result is
\* not a string but the value undefined; on an object that contains itself
\* it throws a TypeError and has no result.
JSONstringify(d) ==
    CASE d.kind = "number" -> [err |-> "", value |-> Str(d.text)]
      [] d.kind = "string" -> [err |-> "", value |-> Str("\"" \o d.text \o "\"")]
      [] d.kind = "null" -> [err |-> "", value |-> Str("null")]
      [] d.kind = "cyclic" -> [err |-> "TypeError", value |-> Undef]
      [] OTHER -> [err |-> "", value |-> Undef]

\* new TextEncoder().encode(v): the bytes of a string (represented by the
\* text they encode); no bytes when v is undefined.
TextEncoderEncode(v) == IF v.kind = "undefined" THEN "" ELSE v.text

\* encodeData: the bytes of the JSON text; the TypeError JSON.stringify
\* throws leaves encodeData before the encoder is reached.
encodeData(d) ==
    IF JSONstringify(d).err # ""
    THEN [err |-> JSONstringify(d).err, bytes |-> ""]
    ELSE [err |-> "", bytes |-> TextEncoderEncode(JSONstringify(d).value)]

\* crypto.createHash(alg).update(bytes).digest().join(''): the rendered
\* digest of the bytes, a free symbol over the text hashed.
SHA512(bytes) == "H(" \o bytes \o ")"

\* Hashing.hashFrom: throws InvalidDataError for undefined, null and
\* functions; otherwise encodeData is called, and the TypeError
\* JSON.stringify throws is thrown on, or the rendered digest returned.
hashFrom(d) ==
    IF d.kind \in {"undefined", "null", "function"}
    THEN [err |-> "InvalidDataError", digest |-> ""]
    ELSE IF encodeData(d).err # ""
    THEN [err |-> encodeData(d).err, digest |-> ""]
    ELSE [err |-> "", digest |-> SHA512(encodeData(d).bytes)]

\* ---------------------------------------------------------------- MerkleTree
\* hashes[i] of a JavaScript array (0-based i is j-1 here): reading past
\* the end yields undefined, which + turns into the text "undefined".
At(hs, j) == IF j \in 1..Len(hs) THEN hs[j] ELSE "undefined"

\* buildLayer with the two digests of a pair concatenated the other way
\* round: hashFrom(hashes[i + 1] + hashes[i]).
buildLayer_LaterFirst(hs) ==
    [k \in 1..((Len(hs) + 1) \div 2) |->
        hashFrom(Str(At(hs, 2 * k) \o At(hs, 2 * k - 1))).digest]

\* buildLayer looping while a whole pair is left (i + 1 < length): the
\* last node of an odd layer is left out.
buildLayer_WholePairs(hs) ==
    [k \in 1..(Len(hs) \div 2) |->
        hashFrom(Str(hs[2 * k - 1] \o hs[2 * k])).digest]

\* MerkleTree.buildLayer: for (i = 0; i < length; i += 2)
\*     push(hashFrom(hashes[i] + hashes[i + 1])).
buildLayer(hs) ==
    [k \in 1..((Len(hs) + 1) \div 2) |->
        hashFrom(Str(At(hs, 2 * k - 1) \o At(hs, 2 * k))).digest]

\* The while (hashes.length > 1) loop of computeRootHash: the values the
\* local variable hashes takes, from the slice to the layer the loop ends on.
RECURSIVE loopLayers(_)
loopLayers(hs) ==
    IF Len(hs) > 1 THEN <<hs>> \o loopLayers(buildLayer(hs)) ELSE <<hs>>

\* Number of hashFrom calls the loop makes: one per element of every layer built.
RECURSIVE loopCalls(_)
loopCalls(ls) == IF Len(ls) <= 1 THEN 0 ELSE Len(ls[2]) + loopCalls(Tail(ls))

\* A new MerkleTree(): the field initialisers.
NewTree == [hashes |-> <<>>, isDirty |-> TRUE, rootHash |-> ""]

\* An odd leaf sequence made even by removing its last node (pop).
pushOdd_DropLast(hs) ==
    IF Len(hs) % 2 = 1 /\ Len(hs) > 1 THEN SubSeq(hs, 1, Len(hs) - 1) ELSE hs

\* If the last node is odd, copy the last node and push it.
pushOdd(hs) == IF Len(hs) % 2 = 1 THEN Append(hs, hs[Len(hs)]) ELSE hs

\* while (hashes.length > 1) tested on two or more: the loop is left with
\* two digests.
loopGoesOn_MoreThanTwo(hs) == Len(hs) > 2

\* The condition of the while loop of computeRootHash.
loopGoesOn(hs) == Len(hs) > 1

\* The early return of computeRootHash never taken.
returnsCached_Never(tr) == FALSE

\* if (!this._isDirty) return this._rootHash: computeRootHash returns the
\* cached root.
returnsCached(tr) == ~tr.isDirty

\* The root returned without being stored in _rootHash.
storeRoot_NotStored(tr, root) == [tr EXCEPT !.isDirty = FALSE]

\* this._isDirty = false; return this._rootHash = hashes[0].
storeRoot(tr, root) == [tr EXCEPT !.isDirty = FALSE, !.rootHash = root]

\* addNode and addNodes leaving the dirty flag alone.
markDirty_Not(tr) == tr

\* this._isDirty = true, the first statement of addNode and addNodes.
markDirty(tr) == [tr EXCEPT !.isDirty = TRUE]

\* The array iterated from its end.
iterNext_FromEnd(items, i) ==
    IF i > Len(items)
    THEN [done |-> TRUE, value |-> Undef]
    ELSE [done |-> FALSE, value |-> items[Len(items) + 1 - i]]

\* The step of for (const d of data) that reads item i (1-based) of the
\* array as it is when the step is taken: done once i is past its length.
iterNext(items, i) ==
    IF i > Len(items)
    THEN [done |-> TRUE, value |-> Undef]
    ELSE [done |-> FALSE, value |-> items[i]]

\* The end of computeRootHash, the loop having gone through the layers ls
\* from the slice ls[1] of the stored hashes: clear the dirty flag, store
\* hashes[0] in _rootHash and return it.
rootCached(ls) ==
    [tree |-> [hashes |-> ls[1], isDirty |-> FALSE, rootHash |-> ls[Len(ls)][1]],
     err |-> "", ret |-> ls[Len(ls)][1], calls |-> loopCalls(ls), layers |-> ls]

\* await tree.computeRootHash() with no other call pending, on a tree
\* record: the tree it leaves, the error thrown ("" for none, "Error" for a
\* plain Error), the digest returned, the hashFrom calls made and the
\* layers the loop went through (the loop is run once and its layers
\* handed to rootCached).
computeRootHash(tr) ==
    IF returnsCached(tr)
    THEN [tree |-> tr, err |-> "", ret |-> tr.rootHash, calls |-> 0,
          layers |-> <<>>]
    ELSE IF Len(tr.hashes) < 1
    THEN [tree |-> tr, err |-> "Error", ret |-> "", calls |-> 0, layers |-> <<>>]
    ELSE CHOOSE r \in {rootCached(ls) : ls \in {loopLayers(pushOdd(tr.hashes))}} :
             TRUE

\* The === of compareWith on the two awaited digests.
strictEqual(a, b) == a = b

\* _addNode putting the new digest at the front: hashes.unshift(...).
addNodePush_Unshift(tr, d) ==
    LET h == hashFrom(d)
    IN IF h.err # ""
       THEN [tree |-> tr, err |-> h.err, n |-> 0]
       ELSE [tree |-> [tr EXCEPT !.hashes = <<h.digest>> \o @],
             err |-> "", n |-> Len(tr.hashes) + 1]

\* _addNode pushing before the hash is known to exist: a datum that throws
\* leaves an entry behind.
addNodePush_PushFirst(tr, d) ==
    LET h == hashFrom(d)
    IN IF h.err # ""
       THEN [tree |-> [tr EXCEPT !.hashes = Append(@, "undefined")],
             err |-> h.err, n |-> 0]
       ELSE [tree |-> [tr EXCEPT !.hashes = Append(@, h.digest)],
             err |-> "", n |-> Len(tr.hashes) + 1]

\* MerkleTree._addNode: hashes.push(await hashFrom(data)).
addNodePush(tr, d) ==
    LET h == hashFrom(d)
    IN IF h.err # ""
       THEN [tree |-> tr, err |-> h.err, n |-> 0]
       ELSE [tree |-> [tr EXCEPT !.hashes = Append(@, h.digest)],
             err |-> "", n |-> Len(tr.hashes) + 1]

\* ---------------------------------------------------------------- state
VARIABLES
    tree,    \* tree[t]: the fields _hashes, _isDirty, _rootHash of instance t
    data,    \* data[t]: the data items appended to instance t so far, in order
    mixed,   \* mixed[t]: an item was appended to t after a root computation
    returned, \* returned[t]: the digest computeRootHash last returned for t
             \* since the last append to t ("" when it returned none)
    last,    \* the call that ended last: its operation, receiver, outcome
    run      \* the calls that have not ended and the job queue

vars == <<tree, data, mixed, returned, last, run>>

\* op: the operation; t: the receiver; u: the argument tree of compareWith;
\* err: the error thrown; ret, n, eq: the digest, count or boolean returned;
\* calls: the hashFrom calls of a root computation; layers: the layers its
\* loop went through; pre, preLen, preDirty: the receiver's leaf sequence,
\* length and dirty flag when the call was made; args: the data the call
\* read (the datum of addNode and hashFrom; the items the loop of addNodes
\* and createWith read, up to the one that threw); given: the array handed
\* to addNodes or createWith, as it is when the call ends; raced: an
\* addNode on the tree was called and ended while this computeRootHash was
\* pending.
NoCall == [op |-> "none", t |-> 1, u |-> 1, err |-> "", ret |-> "", n |-> 0,
           eq |-> FALSE, calls |-> 0, layers |-> <<>>, pre |-> <<>>,
           preLen |-> 0, preDirty |-> TRUE, args |-> <<>>, given |-> <<>>,
           raced |-> FALSE]

\* The async methods: one call of each may be pending at a time.
Kinds == {"computeRootHash", "addNode", "addNodes", "compareWith", "createWith"}

\* The frame of a call that is not pending.  pc: the await the call is
\* suspended at ("B" in buildLayer at await hashFrom, "C" in computeRootHash
\* at await buildLayer, "K" in compareWith at await computeRootHash, "P" in
\* _addNode at await hashFrom, "A" in addNode and "N" in addNodes at await
\* _addNode, "W" in createWith at await addNodes); leg: which of the two
\* root computations of compareWith is under way; d: the datum _addNode was
\* called with; items, i: the array addNodes iterates and the position of
\* its iterator; layers, acc: the values of the local hashes of
\* computeRootHash and newHashes of buildLayer; a, b: the roots compareWith
\* has awaited; priv: the tree createWith is building; within: the addNode
\* was called while the computeRootHash still pending was; the other
\* fields as in the record of a call.
Idle == [pc |-> "idle", leg |-> 0, t |-> 1, u |-> 1, d |-> Num1,
         items |-> <<>>, i |-> 0, args |-> <<>>, pre |-> <<>>,
         preDirty |-> TRUE, layers |-> <<>>, acc |-> <<>>, calls |-> 0,
         a |-> "", b |-> "", err |-> "", n |-> 0, priv |-> NewTree,
         within |-> FALSE, raced |-> FALSE]

\* No call is pending and the job queue is empty.  The queue holds jobs,
\* run first in first out: the job [k, hops] is the continuation of the
\* await call k is suspended at when hops is 0, and otherwise a job of the
\* runtime that queues [k, hops - 1]; Then is a job of the runtime that
\* queues nothing.  legacy: the runtime resolves the promise of an await
\* through the then of the promise awaited (Node 8 to 11, or the
\* generator a build for an older target runs on); otherwise the
\* continuation is itself the reaction of the promise awaited (Node 12 and
\* later).
NoRun == [calls |-> [k \in Kinds |-> Idle], queue |-> <<>>, legacy |-> FALSE]

\* The getters length and isDirty of instance t.
length(t) == Len(tree[t].hashes)
isDirty(t) == tree[t].isDirty

Init ==
    /\ tree = [t \in Trees |-> NewTree]
    /\ data = [t \in Trees |-> <<>>]
    /\ mixed = [t \in Trees |-> FALSE]
    /\ returned = [t \in Trees |-> ""]
    /\ last = NoCall
    /\ \E l \in BOOLEAN : run = [NoRun EXCEPT !.legacy = l]

\* A call of kind k is pending.
Pending(k) == run.calls[k].pc # "idle"

\* Every call made has ended.
Quiet == run.queue = <<>>

\* The frame of a call on receiver t when it is made.
Called(t) == [Idle EXCEPT !.t = t, !.u = t, !.pre = tree[t].hashes,
                          !.preDirty = tree[t].isDirty]

\* The record of the call of operation op whose frame is c when it ends.
Ended(op, c) == [NoCall EXCEPT !.op = op, !.t = c.t, !.u = c.u,
                               !.err = c.err, !.n = c.n, !.calls = c.calls,
                               !.pre = c.pre, !.preLen = Len(c.pre),
                               !.preDirty = c.preDirty, !.args = c.args,
                               !.given = c.items, !.raced = c.raced]

\* A job of the runtime that queues nothing: on a legacy runtime the
\* await of a pending promise calls its then in a job, and the reaction
\* waits for the promise to settle.
Then == [k |-> "then", hops |-> 0]

\* The jobs queued when call k awaits a promise that is already settled
\* (that of hashFrom, or of a method that ended without awaiting), outer
\* async functions up the call stack awaiting in turn the pending promise
\* of the function they called.  Legacy: the continuation is the third
\* job (then of the promise, its reaction, the continuation), and each of
\* the outer awaits queues its Then; otherwise the continuation is queued.
Awaits(k, outer) ==
    IF run.legacy
    THEN <<[k |-> k, hops |-> 2]>> \o [i \in 1..outer |-> Then]
    ELSE <<[k |-> k, hops |-> 0]>>

\* The job queued when the pending promise call k awaits settles, the
\* async function awaited returning or throwing.  Legacy: the reaction
\* registered by the Then job, which queues the continuation; otherwise
\* the continuation.
Settles(k) == <<[k |-> k, hops |-> IF run.legacy THEN 1 ELSE 0]>>

\* The call of kind k made by the caller is suspended with frame c, jobs
\* joining the queue.
Suspend(k, c, jobs) == [run EXCEPT !.calls[k] = c, !.queue = @ \o jobs]

\* The job at the head of the queue has run the call of kind k to its
\* next await with frame c, jobs joining the end of the queue.
Requeue(k, c, jobs) == [run EXCEPT !.calls[k] = c,
                                   !.queue = Tail(@) \o jobs]

\* The job at the head of the queue has run the call of kind k to its end.
Finish(k) == [run EXCEPT !.calls[k] = Idle, !.queue = Tail(@)]

\* The job at the head of the queue resumes the call of kind k.
Runs(k) == run.queue # <<>> /\ Head(run.queue) = [k |-> k, hops |-> 0]

\* The job at the head of the queue is one of the runtime's: a Then, or
\* one that queues the next job on the way to a continuation.
JobAwait ==
    /\ run.queue # <<>>
    /\ \E j \in {Head(run.queue)} :
          /\ j.k = "then" \/ j.hops > 0
          /\ run' = [run EXCEPT !.queue =
                        IF j.k = "then" THEN Tail(@)
                        ELSE Append(Tail(@), [j EXCEPT !.hops = @ - 1])]
    /\ UNCHANGED <<tree, data, mixed, returned, last>>

\* The jobs queued when buildLayer, resumed for call k, leaves frame c:
\* it awaits the next hashFrom or returns to the computeRootHash awaiting
\* it.
buildLayerJobs(k, c) == IF c.pc = "B" THEN Awaits(k, 0) ELSE Settles(k)

\* The tree has been through a root computation (its cache was written).
Computed(tr) == tr.rootHash # ""

\* ---------------------------------------------------------------- steps of computeRootHash
\* computeRootHash on tree tr from its call to its first await.  sync: the
\* call ended without awaiting (cached root, empty tree, loop not entered);
\* otherwise the padding digest is pushed, the slice taken and the call is
\* suspended in buildLayer.
computeStart(tr) ==
    IF returnsCached(tr)
    THEN [tree |-> tr, sync |-> TRUE, err |-> "", ret |-> tr.rootHash,
          layers |-> <<>>]
    ELSE IF Len(tr.hashes) < 1
    THEN [tree |-> tr, sync |-> TRUE, err |-> "Error", ret |-> "",
          layers |-> <<>>]
    ELSE CHOOSE r \in
           {IF loopGoesOn(hs)
            THEN [tree |-> [tr EXCEPT !.hashes = hs], sync |-> FALSE,
                  err |-> "", ret |-> "", layers |-> <<hs>>]
            ELSE [tree |-> storeRoot([tr EXCEPT !.hashes = hs], At(hs, 1)),
                  sync |-> TRUE, err |-> "", ret |-> At(hs, 1),
                  layers |-> <<hs>>] : hs \in {pushOdd(tr.hashes)}} : TRUE

\* buildLayer resumed after await hashFrom: the hash is pushed onto
\* newHashes; with a pair left the loop awaits the next hash (pc "B"),
\* otherwise buildLayer returns and computeRootHash is to resume (pc "C").
buildLayerStep(c) ==
    CHOOSE r \in
      {[c EXCEPT !.acc = Append(@, next[Len(c.acc) + 1]),
                 !.calls = @ + 1,
                 !.pc = IF Len(c.acc) + 1 < Len(next) THEN "B" ELSE "C"] :
          next \in {buildLayer(c.layers[Len(c.layers)])}} : TRUE

\* computeRootHash on tree tr resumed after await buildLayer: hashes is
\* the layer built; the loop goes round into buildLayer again (over: FALSE)
\* or ends, the root is stored and returned (over: TRUE).
computeResume(tr, c) ==
    IF loopGoesOn(c.acc)
    THEN [over |-> FALSE, tree |-> tr, ret |-> "",
          c |-> [c EXCEPT !.layers = Append(@, c.acc), !.acc = <<>>,
                          !.pc = "B"]]
    ELSE [over |-> TRUE, tree |-> storeRoot(tr, At(c.acc, 1)),
          ret |-> At(c.acc, 1),
          c |-> [c EXCEPT !.layers = Append(@, c.acc), !.acc = <<>>]]

\* tree.computeRootHash() is called.
ComputeRootHash(t) ==
    /\ ~Pending("computeRootHash")
    /\ \E r \in {computeStart(tree[t])} :
          /\ tree' = [tree EXCEPT ![t] = r.tree]
          /\ IF r.sync
             THEN /\ last' = [Ended("computeRootHash", Called(t)) EXCEPT
                                  !.err = r.err, !.ret = r.ret,
                                  !.layers = r.layers]
                  /\ returned' = [returned EXCEPT
                                      ![t] = IF r.err = "" THEN r.ret ELSE @]
                  /\ UNCHANGED run
             ELSE /\ last' = NoCall
                  /\ run' = Suspend("computeRootHash",
                                    [Called(t) EXCEPT !.pc = "B",
                                                      !.layers = r.layers],
                                    Awaits("computeRootHash", 1))
                  /\ UNCHANGED returned
          /\ UNCHANGED <<data, mixed>>

\* The job queue resumes the pending computeRootHash.
JobComputeRootHash ==
    /\ Runs("computeRootHash")
    /\ \E c \in {run.calls["computeRootHash"]} :
          IF c.pc = "B"
          THEN /\ \E b \in {buildLayerStep(c)} :
                    run' = Requeue("computeRootHash", b,
                                   buildLayerJobs("computeRootHash", b))
               /\ UNCHANGED <<tree, data, mixed, returned, last>>
          ELSE \E r \in {computeResume(tree[c.t], c)} :
                  IF ~r.over
                  THEN /\ run' = Requeue("computeRootHash", r.c,
                                          Awaits("computeRootHash", 1))
                       /\ UNCHANGED <<tree, data, mixed, returned, last>>
                  ELSE /\ tree' = [tree EXCEPT ![c.t] = r.tree]
                       /\ returned' = [returned EXCEPT ![c.t] = r.ret]
                       /\ last' = [Ended("computeRootHash", r.c) EXCEPT
                                       !.ret = r.ret, !.layers = r.c.layers]
                       /\ run' = [run EXCEPT
                                     !.calls["computeRootHash"] = Idle,
                                     !.calls["addNode"].within = FALSE,
                                     !.queue = Tail(@)]
                       /\ UNCHANGED <<data, mixed>>

\* ---------------------------------------------------------------- steps of compareWith
\* compareWith with frame c calls computeRootHash on tree tr, the first
\* (leg 1) or second (leg 2) of its two: the frame it awaits the root with.
compareLeg(c, leg, r) ==
    IF r.sync
    THEN [c EXCEPT !.pc = "K", !.leg = leg, !.err = r.err,
                   !.a = IF leg = 1 THEN r.ret ELSE @,
                   !.b = IF leg = 2 THEN r.ret ELSE @]
    ELSE [c EXCEPT !.pc = "B", !.leg = leg, !.layers = r.layers, !.acc = <<>>]

\* The jobs queued when compareWith has called computeRootHash and awaits
\* it with frame c: the call ended at once, or it is suspended in
\* buildLayer with computeRootHash and compareWith awaiting.
compareJobs(c) ==
    IF c.pc = "K" THEN Awaits("compareWith", 0) ELSE Awaits("compareWith", 2)

\* tree.compareWith(thatTree) is called: this.computeRootHash() is called
\* and awaited; t and u may be one instance.
CompareWith(t, u) ==
    /\ ~Pending("compareWith")
    /\ \E r \in {computeStart(tree[t])} :
          /\ tree' = [tree EXCEPT ![t] = r.tree]
          /\ returned' = [returned EXCEPT
                              ![t] = IF r.sync /\ r.err = "" THEN r.ret ELSE @]
          /\ \E c \in {compareLeg([Called(t) EXCEPT !.u = u], 1, r)} :
                run' = Suspend("compareWith", c, compareJobs(c))
          /\ last' = NoCall
          /\ UNCHANGED <<data, mixed>>

\* The job queue resumes the pending compareWith: in buildLayer or in
\* computeRootHash of the leg under way, or in compareWith itself with the
\* root awaited, where it calls thatTree.computeRootHash() or compares the
\* two roots with === and returns; an error thrown by either call is
\* thrown on.
JobCompareWith ==
    /\ Runs("compareWith")
    /\ \E c \in {run.calls["compareWith"]} :
       \E v \in {IF c.leg = 1 THEN c.t ELSE c.u} :
          CASE c.pc = "B" ->
                 /\ \E b \in {buildLayerStep(c)} :
                      run' = Requeue("compareWith", b,
                                     buildLayerJobs("compareWith", b))
                 /\ UNCHANGED <<tree, data, mixed, returned, last>>
            [] c.pc = "C" ->
                 \E r \in {computeResume(tree[v], c)} :
                    IF ~r.over
                    THEN /\ run' = Requeue("compareWith", r.c,
                                            Awaits("compareWith", 1))
                         /\ UNCHANGED <<tree, data, mixed, returned, last>>
                    ELSE /\ tree' = [tree EXCEPT ![v] = r.tree]
                         /\ returned' = [returned EXCEPT ![v] = r.ret]
                         /\ run' = Requeue("compareWith",
                                [r.c EXCEPT !.pc = "K", !.layers = <<>>,
                                            !.a = IF c.leg = 1 THEN r.ret ELSE @,
                                            !.b = IF c.leg = 2 THEN r.ret ELSE @],
                                Settles("compareWith"))
                         /\ UNCHANGED <<data, mixed, last>>
            [] c.pc = "K" /\ c.err # "" ->
                 /\ last' = Ended("compareWith", c)
                 /\ run' = Finish("compareWith")
                 /\ UNCHANGED <<tree, data, mixed, returned>>
            [] c.pc = "K" /\ c.err = "" /\ c.leg = 1 ->
                 \E r \in {computeStart(tree[c.u])} :
                    /\ tree' = [tree EXCEPT ![c.u] = r.tree]
                    /\ returned' = [returned EXCEPT
                           ![c.u] = IF r.sync /\ r.err = "" THEN r.ret ELSE @]
                    /\ \E n \in {compareLeg(c, 2, r)} :
                         run' = Requeue("compareWith", n, compareJobs(n))
                    /\ UNCHANGED <<data, mixed, last>>
            [] c.pc = "K" /\ c.err = "" /\ c.leg = 2 ->
                 /\ last' = [Ended("compareWith", c) EXCEPT
                                 !.eq = strictEqual(c.a, c.b)]
                 /\ run' = Finish("compareWith")
                 /\ UNCHANGED <<tree, data, mixed, returned>>

\* ---------------------------------------------------------------- steps of addNode, addNodes, createWith
\* _addNode resumed after await hashFrom on tree tr: the digest is pushed
\* or the error of hashFrom thrown; the caller of _addNode (pc next) is to
\* resume with the outcome.
pushStep(tr, c, next) ==
    CHOOSE r \in
      {[tree |-> p.tree,
        c |-> [c EXCEPT !.pc = next, !.err = p.err, !.n = p.n]] :
          p \in {addNodePush(tr, c.d)}} : TRUE

\* The loop of addNodes takes its next step on tree tr: with the iterator
\* done the call returns the length (pc "end"); otherwise _addNode is
\* called with the item read and the loop awaits it (pc "P").
loopStep(tr, c) ==
    CHOOSE r \in
      {IF it.done
       THEN [c EXCEPT !.pc = "end", !.n = Len(tr.hashes)]
       ELSE [c EXCEPT !.pc = "P", !.i = c.i + 1, !.d = it.value,
                      !.args = Append(@, it.value)] :
          it \in {iterNext(c.items, c.i + 1)}} : TRUE

\* tree.addNode(d) is called: the dirty flag is set, _addNode calls
\* hashFrom and awaits it.
AddNode(t, d) ==
    /\ ~Pending("addNode")
    /\ tree' = [tree EXCEPT ![t] = markDirty(@)]
    /\ run' = Suspend("addNode",
                      [Called(t) EXCEPT !.pc = "P", !.d = d, !.args = <<d>>,
                                        !.within = Pending("computeRootHash")],
                      Awaits("addNode", 1))
    /\ last' = NoCall
    /\ UNCHANGED <<data, mixed, returned>>

\* The job queue resumes the pending addNode: in _addNode, which pushes
\* the digest or throws, then in addNode, which returns what _addNode
\* returned or throws what it threw.
JobAddNode ==
    /\ Runs("addNode")
    /\ \E c \in {run.calls["addNode"]} :
          IF c.pc = "P"
          THEN \E r \in {pushStep(tree[c.t], c, "A")} :
                  /\ tree' = [tree EXCEPT ![c.t] = r.tree]
                  /\ run' = Requeue("addNode", r.c, Settles("addNode"))
                  /\ IF r.c.err # ""
                     THEN UNCHANGED <<data, mixed, returned>>
                     ELSE /\ data' = [data EXCEPT ![c.t] = Append(@, c.d)]
                          /\ mixed' = [mixed EXCEPT
                                           ![c.t] = @ \/ Computed(tree[c.t])]
                          /\ returned' = [returned EXCEPT ![c.t] = ""]
                  /\ UNCHANGED last
          ELSE /\ last' = Ended("addNode", c)
               /\ run' = [run EXCEPT
                             !.calls["addNode"] = Idle,
                             !.calls["computeRootHash"].raced = @ \/ c.within,
                             !.queue = Tail(@)]
               /\ UNCHANGED <<tree, data, mixed, returned>>

\* tree.addNodes(items) is called: the dirty flag is set and the loop
\* takes its first step; over an empty array the call returns at once.
AddNodes(t, items) ==
    /\ ~Pending("addNodes")
    /\ tree' = [tree EXCEPT ![t] = markDirty(@)]
    /\ \E c \in {loopStep(tree[t], [Called(t) EXCEPT !.items = items])} :
          IF c.pc = "end"
          THEN /\ last' = Ended("addNodes", c)
               /\ UNCHANGED run
          ELSE /\ last' = NoCall
               /\ run' = Suspend("addNodes", c, Awaits("addNodes", 1))
    /\ UNCHANGED <<data, mixed, returned>>

\* The job queue resumes the pending addNodes: in _addNode, which pushes
\* or throws, then in the loop, which throws what _addNode threw, goes on
\* to the next item or returns the length.
JobAddNodes ==
    /\ Runs("addNodes")
    /\ \E c \in {run.calls["addNodes"]} :
          IF c.pc = "P"
          THEN \E r \in {pushStep(tree[c.t], c, "N")} :
                  /\ tree' = [tree EXCEPT ![c.t] = r.tree]
                  /\ run' = Requeue("addNodes", r.c, Settles("addNodes"))
                  /\ IF r.c.err # ""
                     THEN UNCHANGED <<data, mixed, returned>>
                     ELSE /\ data' = [data EXCEPT ![c.t] = Append(@, c.d)]
                          /\ mixed' = [mixed EXCEPT
                                           ![c.t] = @ \/ Computed(tree[c.t])]
                          /\ returned' = [returned EXCEPT ![c.t] = ""]
                  /\ UNCHANGED last
          ELSE \E n \in {IF c.err # "" THEN [c EXCEPT !.pc = "end", !.n = 0]
                         ELSE loopStep(tree[c.t], c)} :
                  /\ IF n.pc = "end"
                     THEN /\ last' = Ended("addNodes", n)
                          /\ run' = Finish("addNodes")
                     ELSE /\ last' = last
                          /\ run' = Requeue("addNodes", n,
                                             Awaits("addNodes", 1))
                  /\ UNCHANGED <<tree, data, mixed, returned>>

\* MerkleTree.createWith(items) is called, its result to be instance t: a
\* new tree, on which addNodes(items) is called and awaited.
CreateWith(t, items) ==
    /\ ~Pending("createWith")
    /\ \E p \in {markDirty(NewTree)} :
       \E c \in {loopStep(p, [Idle EXCEPT !.t = t, !.u = t, !.items = items,
                                          !.priv = p])} :
          run' = IF c.pc = "end"
                 THEN Suspend("createWith", [c EXCEPT !.pc = "W"],
                              Awaits("createWith", 0))
                 ELSE Suspend("createWith", c, Awaits("createWith", 2))
    /\ last' = NoCall
    /\ UNCHANGED <<tree, data, mixed, returned>>

\* The job queue resumes the pending createWith: in _addNode and in the
\* loop of addNodes on the new tree, then in createWith, which returns the
\* tree (the caller makes it instance t) or throws what addNodes threw (the
\* caller gets no tree and instance t stays what it was).
JobCreateWith ==
    /\ Runs("createWith")
    /\ \E c \in {run.calls["createWith"]} :
          CASE c.pc = "P" ->
                 \E r \in {pushStep(c.priv, c, "N")} :
                    /\ run' = Requeue("createWith", [r.c EXCEPT !.priv = r.tree],
                                       Settles("createWith"))
                    /\ UNCHANGED <<tree, data, mixed, returned, last>>
            [] c.pc = "N" ->
                 \E n \in {IF c.err # "" THEN [c EXCEPT !.pc = "end", !.n = 0]
                           ELSE loopStep(c.priv, c)} :
                    /\ run' = IF n.pc = "end"
                              THEN Requeue("createWith", [n EXCEPT !.pc = "W"],
                                           Settles("createWith"))
                              ELSE Requeue("createWith", n,
                                           Awaits("createWith", 1))
                    /\ UNCHANGED <<tree, data, mixed, returned, last>>
            [] c.pc = "W" ->
                 /\ last' = Ended("createWith", c)
                 /\ run' = Finish("createWith")
                 /\ IF c.err # ""
                    THEN UNCHANGED <<tree, data, mixed, returned>>
                    ELSE /\ tree' = [tree EXCEPT ![c.t] = c.priv]
                         /\ data' = [data EXCEPT ![c.t] =
                                SubSeq(c.args, 1, Len(c.priv.hashes))]
                         /\ mixed' = [mixed EXCEPT ![c.t] = FALSE]
                         /\ returned' = [returned EXCEPT ![c.t] = ""]

\* The caller pushes d onto the array it handed to the pending addNodes
\* or createWith (kind k): the loop reads the array as it then is.
ArrayPush(k, d) ==
    /\ Pending(k)
    /\ run' = [run EXCEPT !.calls[k].items = Append(@, d)]
    /\ UNCHANGED <<tree, data, mixed, returned, last>>

\* MerkleTree.create(): instance t becomes a new, empty tree.
Create(t) ==
    /\ tree' = [tree EXCEPT ![t] = NewTree]
    /\ data' = [data EXCEPT ![t] = <<>>]
    /\ mixed' = [mixed EXCEPT ![t] = FALSE]
    /\ returned' = [returned EXCEPT ![t] = ""]
    /\ last' = [NoCall EXCEPT !.op = "create", !.t = t, !.u = t]
    /\ UNCHANGED run

\* Hashing.hashFrom(d) called directly: no tree is touched.
HashFrom(d) ==
    \E h \in {hashFrom(d)} :
       /\ last' = [NoCall EXCEPT !.op = "hashFrom", !.err = h.err,
                                 !.ret = h.digest, !.args = <<d>>]
       /\ UNCHANGED <<tree, data, mixed, returned, run>>

\* ---------------------------------------------------------------- specifications
\* The jobs of the job queue: the call at its head is resumed.
Job ==
    \/ JobComputeRootHash
    \/ JobCompareWith
    \/ JobAddNode
    \/ JobAddNodes
    \/ JobCreateWith
    \/ JobAwait

\* One tree instance, every operation, every kind of datum, each call
\* awaited: the caller makes a call only when the call before it has ended.
\* The caller keeps the tree createWith returns in place of an instance
\* without leaves.
Next ==
    \/ \E t \in {1} : Quiet /\ Create(t)
    \/ \E t \in {1}, items \in SeqUpTo(BatchData, MaxBatch) :
           Quiet /\ length(t) = 0 /\ CreateWith(t, items)
    \/ \E t \in {1}, d \in SingleData :
           Quiet /\ length(t) < MaxLeaves /\ AddNode(t, d)
    \/ \E t \in {1}, items \in SeqUpTo(BatchData, MaxBatch) :
           Quiet /\ length(t) + Len(items) <= MaxLeaves /\ AddNodes(t, items)
    \/ \E t \in {1} : Quiet /\ ComputeRootHash(t)
    \/ \E t \in {1}, u \in {1} : Quiet /\ CompareWith(t, u)
    \/ \E d \in Data : Quiet /\ HashFrom(d)
    \/ JobComputeRootHash
    \/ JobCompareWith
    \/ JobAddNode
    \/ JobAddNodes
    \/ JobCreateWith
    \/ JobAwait

Spec == Init /\ [][Next]_vars

\* Two tree instances built over hashable items, the first by create and
\* createWith, the second by addNode as well, computed and compared in any
\* order, each call awaited.
NextPair ==
    \/ \E t \in Trees : Quiet /\ Create(t)
    \/ \E t \in Trees, items \in SeqUpTo(PairData, MaxPairLeaves) :
           Quiet /\ length(t) = 0 /\ CreateWith(t, items)
    \/ \E t \in {2}, d \in PairData :
           Quiet /\ Len(data[t]) < MaxPairLeaves /\ AddNode(t, d)
    \/ \E t \in Trees : Quiet /\ ComputeRootHash(t)
    \/ \E t \in Trees, u \in Trees : Quiet /\ CompareWith(t, u)
    \/ JobComputeRootHash
    \/ JobCompareWith
    \/ JobAddNode
    \/ JobCreateWith
    \/ JobAwait

SpecPair == Init /\ [][NextPair]_vars

\* The number of calls pending.
PendingCalls == Cardinality({k \in Kinds : Pending(k)})

\* The items of the arrays and the data of addNode when calls are left
\* unawaited: a leaf shows which of the two appended it.
AsyncItems == {Num1, Undef}
AsyncData == {Str1, Undef}

\* A further call may be made without awaiting the pending ones.
MayCall == PendingCalls < MaxPending /\ ~Pending("createWith")

\* One tree instance whose calls are made without awaiting them, up to
\* MaxPending at a time; the caller may push onto an array it has handed
\* over.  createWith works on a tree no other call can reach before it
\* returns: it is called with no call pending, the caller keeping the
\* tree it returns in place of an instance without leaves.
NextAsync ==
    \/ \E items \in SeqUpTo(AsyncItems, MaxBatch) :
           /\ PendingCalls = 0
           /\ length(1) = 0
           /\ CreateWith(1, items)
    \/ \E d \in AsyncData :
           /\ MayCall
           /\ length(1) < MaxAsyncLeaves
           /\ AddNode(1, d)
    \/ \E items \in SeqUpTo(AsyncItems, MaxBatch) :
           /\ MayCall
           /\ length(1) + Len(items) <= MaxAsyncBatchLeaves
           /\ AddNodes(1, items)
    \/ MayCall /\ ComputeRootHash(1)
    \/ MayCall /\ CompareWith(1, 1)
    \/ \E k \in {"addNodes", "createWith"}, d \in AsyncItems :
           /\ Len(run.calls[k].items) < MaxBatch
           /\ length(1) + Len(run.calls[k].items) < MaxAsyncBatchLeaves
           /\ ArrayPush(k, d)
    \/ JobComputeRootHash
    \/ JobCompareWith
    \/ JobAddNode
    \/ JobAddNodes
    \/ JobCreateWith
    \/ JobAwait

SpecAsync == Init /\ [][NextAsync]_vars

\* A pending call awaits promises that are resolved, so the job queue
\* resumes it: no job stays at the head of the queue for ever.
SpecFair == Spec /\ WF_vars(Job)

\* ---------------------------------------------------------------- claims
\* The call recorded in last is a computeRootHash that returned.
ComputeDone == last.op = "computeRootHash" /\ last.err = ""

\* C1: computeRootHash does not change length: for every tree with n >= 1
\* leaves, odd n included, length after the call equals length before it.
C1_LengthUnchanged == ComputeDone => length(last.t) = last.preLen

\* The layer-reduction algorithm as the specification states it (section
\* 4.2): an odd working sequence gets a duplicate of its last digest, then
\* digests are hashed in pairs, until one digest remains.
RefLayer(hs) ==
    LET even == IF Len(hs) % 2 = 1 THEN Append(hs, hs[Len(hs)]) ELSE hs
    IN [k \in 1..(Len(even) \div 2) |->
           hashFrom(Str(even[2 * k - 1] \o even[2 * k])).digest]

RECURSIVE RefRoot(_)
RefRoot(hs) == IF Len(hs) <= 1 THEN hs[1] ELSE RefRoot(RefLayer(hs))

\* C2: whenever isDirty is false, the cached root equals the root the
\* layer-reduction algorithm yields for the tree's current leaf sequence.
C2_CleanCacheIsRoot ==
    \A t \in Trees : ~isDirty(t) => tree[t].rootHash = RefRoot(tree[t].hashes)

\* C3: a tree from create or createWith is dirty; after a successful
\* computeRootHash on a non-empty tree it is not dirty; after a successful
\* addNode or addNodes it is dirty again.
C3_DirtyLifecycle ==
    /\ (last.op \in {"create", "createWith"} /\ last.err = "") => isDirty(last.t)
    /\ (ComputeDone /\ last.preLen >= 1) => ~isDirty(last.t)
    /\ (last.op \in {"addNode", "addNodes"} /\ last.err = "") => isDirty(last.t)

\* C3 witness: an addNode succeeded on a tree that a root computation had
\* left clean, and the tree is dirty again.
C3_Witness ==
    /\ last.op = "addNode" /\ last.err = "" /\ ~last.preDirty
    /\ last.preLen >= 1 /\ isDirty(last.t)

\* C4: computeRootHash on a tree that is not dirty returns the cached root,
\* calls the hashing service zero times and leaves the leaf sequence, the
\* dirty flag and the cached root as they were.
C4_CleanComputeIsNoOp ==
    [][\A t \in Trees :
          (~isDirty(t) /\ last'.op = "computeRootHash" /\ last'.t = t) =>
              /\ last'.err = ""
              /\ last'.ret = tree[t].rootHash
              /\ last'.ret = returned[t]
              /\ last'.calls = 0
              /\ tree'[t] = tree[t]]_vars

\* C4 witness: computeRootHash was called on a clean tree of at least two
\* leaves and returned its root.
C4_Witness ==
    /\ ComputeDone /\ ~last.preDirty /\ last.preLen >= 2
    /\ last.ret = tree[last.t].rootHash /\ last.ret # ""

\* C5: computeRootHash on a tree with zero leaves fails with
\* InvalidDataError; the tree stays dirty, its length stays 0 and no root
\* is cached.
C5_EmptyTreeInvalidData ==
    (last.op = "computeRootHash" /\ last.preLen = 0) =>
        /\ last.err = "InvalidDataError"
        /\ isDirty(last.t)
        /\ length(last.t) = 0
        /\ tree[last.t].rootHash = ""

\* C6: two trees built from the same data sequence return equal root
\* digests, and a computeRootHash call on a tree returns the digest the
\* call before it returned when nothing was appended in between.
C6_Determinism ==
    /\ [](\A t, u \in Trees :
            (/\ returned[t] # "" /\ returned[u] # ""
             /\ ~mixed[t] /\ ~mixed[u]
             /\ data[t] = data[u]) => returned[t] = returned[u])
    /\ [][\A t \in Trees :
            (/\ last'.op = "computeRootHash" /\ last'.t = t /\ last'.err = ""
             /\ returned[t] # "") => last'.ret = returned[t]]_vars

\* C6 witness: both trees hold the same three items, both have returned a
\* root, and the last call was a second computeRootHash on a clean tree.
C6_Witness ==
    /\ ComputeDone /\ ~last.preDirty
    /\ Len(data[1]) = 3 /\ data[1] = data[2]
    /\ returned[1] # "" /\ returned[1] = returned[2]

\* The layers of the last root computation.
LastLayers == last.layers

\* C7: in every layer-reduction step over a working sequence D, output
\* element k is the hash of D[2k-1] followed by D[2k] (1-based): pairs are
\* formed left to right, the earlier-index digest first.
C7_PairsLeftToRight ==
    ComputeDone =>
        \A i \in 1..(Len(LastLayers) - 1) :
            LET D == LastLayers[i]
                N == LastLayers[i + 1]
            IN \A k \in 1..(Len(D) \div 2) :
                   /\ k <= Len(N)
                   /\ N[k] = hashFrom(Str(D[2 * k - 1] \o D[2 * k])).digest

\* C7 witness: a root computation went through two reduction steps from
\* four leaves whose first two digests differ.
C7_Witness ==
    /\ ComputeDone /\ Len(LastLayers) = 3 /\ Len(LastLayers[1]) = 4
    /\ LastLayers[1][1] # LastLayers[1][2]
    /\ LastLayers[1][3] # LastLayers[1][4]

\* The levels of the last root computation: the tree's leaf sequence when
\* the call was made, then every layer built from it.
LastLevels == IF LastLayers = <<>> THEN <<>> ELSE <<last.pre>> \o Tail(LastLayers)

\* C8: at every level of the reduction, a working sequence of odd length
\* n > 1 has its last digest paired with a duplicate of itself: the last
\* output is the hash of D[n] followed by D[n].
C8_OddLevelDuplicatesLast ==
    ComputeDone =>
        \A i \in 1..(Len(LastLevels) - 1) :
            LET D == LastLevels[i]
                N == LastLevels[i + 1]
            IN (Len(D) % 2 = 1 /\ Len(D) > 1) =>
                   N[Len(N)] = hashFrom(Str(D[Len(D)] \o D[Len(D)])).digest

\* C9: for a tree with exactly one leaf, computeRootHash returns that
\* leaf's own digest, with no hashing pass.
C9_SingleLeafIsRoot ==
    (ComputeDone /\ last.preLen = 1) =>
        (last.ret = last.pre[1] /\ last.calls = 0)

\* C10: two trees of the same leaf count whose data sequences differ in at
\* least one position produce different root digests.
C10_DifferentDataDifferentRoot ==
    \A t, u \in Trees :
        (/\ returned[t] # "" /\ returned[u] # ""
         /\ Len(data[t]) = Len(data[u])
         /\ data[t] # data[u]) => returned[t] # returned[u]

\* The datum is one hashFrom rejects: undefined, null or a function.
IsUnhashable(d) == d.kind \in {"undefined", "null", "function"}

\* The digests of the items of a sequence, in order.
Digests(items) == [i \in 1..Len(items) |-> hashFrom(items[i]).digest]

\* The call recorded in last is a compareWith that returned.
CompareDone == last.op = "compareWith" /\ last.err = ""

\* C11: two trees with different leaf counts or different leaf content never
\* produce equal roots, so compareWith returns true only if both trees hold
\* the same leaf sequence.
C11_EqualRootsSameData ==
    /\ \A t, u \in Trees :
           (returned[t] # "" /\ returned[t] = returned[u]) => data[t] = data[u]
    /\ (CompareDone /\ last.eq) => data[last.t] = data[last.u]

\* C12: for two non-empty trees compareWith returns true if and only if the
\* root digests of the two trees are equal, and two trees built from the same
\* data sequence compare true.
C12_CompareIsRootEquality ==
    CompareDone =>
        /\ ~isDirty(last.t) /\ ~isDirty(last.u)
        /\ last.eq <=> (tree[last.t].rootHash = tree[last.u].rootHash)
        /\ last.eq <=> (returned[last.t] = returned[last.u])
        /\ data[last.t] = data[last.u] => last.eq

\* C13: hashFrom fails with InvalidDataError for undefined, null and
\* functions, and returns a digest for every other input.
C13_HashFromRejects ==
    last.op = "hashFrom" =>
        IF IsUnhashable(last.args[1])
        THEN last.err = "InvalidDataError"
        ELSE last.err = "" /\ last.ret # ""

\* C14: a successful addNode appends exactly one digest, that of its datum,
\* at the end of the leaf sequence, increases length by 1, marks the tree
\* dirty and returns the new leaf count.
C14_AddNodeAppendsOne ==
    (last.op = "addNode" /\ last.err = "") =>
        /\ tree[last.t].hashes = Append(last.pre, hashFrom(last.args[1]).digest)
        /\ length(last.t) = last.preLen + 1
        /\ isDirty(last.t)
        /\ last.n = length(last.t)

\* C14 witness: addNode succeeded on a clean tree of two leaves whose last
\* digest is not the new one.
C14_Witness ==
    /\ last.op = "addNode" /\ last.err = "" /\ ~last.preDirty
    /\ last.preLen = 2 /\ length(last.t) = 3
    /\ tree[last.t].hashes[3] # tree[last.t].hashes[2]

\* C15: addNode with undefined, null or a function fails with
\* InvalidDataError and leaves the leaf sequence as it was.
C15_AddNodeRejects ==
    (last.op = "addNode" /\ IsUnhashable(last.args[1])) =>
        /\ last.err = "InvalidDataError"
        /\ tree[last.t].hashes = last.pre

\* C15 witness: addNode with null threw on a tree of two leaves.
C15_Witness ==
    /\ last.op = "addNode" /\ last.args = <<Null>>
    /\ last.err = "InvalidDataError" /\ length(last.t) = 2

\* C16: a successful addNodes on a tree of length L appends the digests of
\* its k items in the given order, returns L + k and leaves length L + k.
C16_AddNodesAppendsInOrder ==
    (last.op = "addNodes" /\ last.err = "") =>
        /\ tree[last.t].hashes = last.pre \o Digests(last.given)
        /\ last.n = last.preLen + Len(last.given)
        /\ length(last.t) = last.preLen + Len(last.given)

\* C16 witness: addNodes appended two different items to a tree of one leaf.
C16_Witness ==
    /\ last.op = "addNodes" /\ last.err = "" /\ last.preLen = 1
    /\ Len(last.given) = 2 /\ last.given[1] # last.given[2]
    /\ length(last.t) = 3 /\ last.n = 3

\* C17: createWith(items) and create() followed by addNodes(items) yield a
\* tree with the same leaf sequence, length, dirty flag and cache (the
\* digests of the items in order, dirty, nothing cached), and each fails
\* with InvalidDataError exactly when some item is unhashable.
C17_CreateWithIsCreateThenAddNodes ==
    (last.op \in {"createWith", "addNodes"} /\ last.preLen = 0) =>
        /\ last.err = "InvalidDataError" <=>
               \E i \in 1..Len(last.given) : IsUnhashable(last.given[i])
        /\ last.err = "" =>
               /\ tree[last.t] = [hashes |-> Digests(last.given),
                                  isDirty |-> TRUE, rootHash |-> ""]
               /\ last.n = Len(last.given)

\* C18: the root of a tree depends only on the data items appended to it,
\* not on when computeRootHash was called: it is the root createWith over
\* the same items returns.
C18_RootDependsOnDataOnly ==
    \A t \in Trees :
        returned[t] # "" =>
            returned[t] = computeRootHash([hashes |-> Digests(data[t]),
                                           isDirty |-> TRUE,
                                           rootHash |-> ""]).ret

\* C19: an addNode that fails leaves the persisted state unchanged, the
\* dirty flag included: on a clean tree it leaves the tree clean.
C19_FailedAddNodeChangesNothing ==
    (last.op = "addNode" /\ last.err # "") =>
        /\ tree[last.t].hashes = last.pre
        /\ isDirty(last.t) = last.preDirty

\* C20: isDirty is true only if no computeRootHash has succeeded yet or a
\* leaf was appended since the last successful one; addNodes([]) on a clean
\* tree leaves isDirty false.
C20_DirtyOnlyWithoutCachedRoot ==
    \A t \in Trees : isDirty(t) => returned[t] = ""

\* C21: a compareWith that fails because a tree has zero leaves changes
\* the leaf sequence, the cached root and the dirty flag of neither tree,
\* also when the receiver is non-empty and dirty and only the argument
\* tree is empty.
C21_FailedCompareChangesNothing ==
    (last.op = "compareWith" /\ last.err # "") =>
        /\ tree[last.t].hashes = last.pre
        /\ isDirty(last.t) = last.preDirty
        /\ last.preDirty => tree[last.t].rootHash = ""

\* C22: when addNodes meets its first unhashable item at index k it fails
\* with InvalidDataError, the digests of the k items before it have been
\* appended in order and stay in the tree, and no item at index k or later
\* is appended: length is the old length plus k.
C22_AddNodesStopsAtFirstUnhashable ==
    last.op = "addNodes" =>
        \A k \in 0..(Len(last.given) - 1) :
            (/\ IsUnhashable(last.given[k + 1])
             /\ \A i \in 1..k : hashFrom(last.given[i]).err = "") =>
                /\ last.err = "InvalidDataError"
                /\ tree[last.t].hashes =
                       last.pre \o Digests(SubSeq(last.given, 1, k))
                /\ length(last.t) = last.preLen + k

\* C22 witness: addNodes on a tree of two leaves appended its first item
\* and threw on its second.
C22_Witness ==
    /\ last.op = "addNodes" /\ last.err = "InvalidDataError"
    /\ Len(last.given) = 2 /\ last.preLen = 2 /\ length(last.t) = 3

\* The sequence a is a prefix of the sequence b.
IsPrefix(a, b) == Len(a) <= Len(b) /\ SubSeq(b, 1, Len(a)) = a

\* C23: across every operation on a tree the leaf sequence before it is a
\* prefix of the leaf sequence after it: no operation removes, reorders or
\* overwrites a stored leaf digest.
C23_LeavesOnlyAppended ==
    [][\A t \in Trees :
          last'.op \notin {"create", "createWith"} =>
              IsPrefix(tree[t].hashes, tree'[t].hashes)]_vars

\* C23 witness: a root computation on a dirty tree of three leaves left
\* four stored digests, the first three being those it found.
C23_Witness ==
    /\ ComputeDone /\ last.preDirty /\ last.preLen = 3
    /\ length(last.t) = 4
    /\ SubSeq(tree[last.t].hashes, 1, 3) = last.pre

\* The texts a digest of D can be concatenated with in a reduction step.
Partners(D) == {D[j] : j \in 1..Len(D)} \cup {"undefined"}

\* C24: each layer-reduction step over a working sequence of n >= 2
\* digests produces exactly ceil(n/2) digests, and every input digest is
\* one of the two texts hashed into the output element of its pair.
C24_LayerHalvesKeepsAll ==
    ComputeDone =>
        \A i \in 1..(Len(LastLayers) - 1) :
            LET D == LastLayers[i]
                N == LastLayers[i + 1]
            IN Len(D) >= 2 =>
                   /\ Len(N) = (Len(D) + 1) \div 2
                   /\ \A j \in 1..Len(D) :
                          /\ (j + 1) \div 2 <= Len(N)
                          /\ \E x \in Partners(D) :
                                 N[(j + 1) \div 2] \in
                                     {hashFrom(Str(D[j] \o x)).digest,
                                      hashFrom(Str(x \o D[j])).digest}

\* C24 witness: a root computation reduced a layer of three digests to two.
C24_Witness ==
    /\ ComputeDone
    /\ \E i \in 1..(Len(LastLayers) - 1) :
           Len(LastLayers[i]) = 3 /\ Len(LastLayers[i + 1]) = 2

\* The frame of the pending computeRootHash.
Comp == run.calls["computeRootHash"]

\* The last of a sequence of layers.
LastOf(ls) == ls[Len(ls)]

\* C25: computeRootHash on a dirty tree with n >= 1 leaves always
\* terminates: a pending computation is eventually over; every reduction
\* step strictly shrinks the working sequence while its length exceeds 1;
\* the loop ends with exactly one digest, which is cached and returned.
C25_ComputeTerminates ==
    /\ (Comp.pc # "idle") ~> (Comp.pc = "idle")
    /\ [][(Comp.pc = "C" /\ Comp' # Comp) =>
             IF Comp'.pc # "idle"
             THEN /\ Len(LastOf(Comp.layers)) > 1
                  /\ Len(LastOf(Comp'.layers)) < Len(LastOf(Comp.layers))
             ELSE /\ last'.op = "computeRootHash" /\ last'.err = ""
                  /\ Len(LastOf(last'.layers)) = 1
                  /\ last'.ret = LastOf(last'.layers)[1]
                  /\ tree'[Comp.t].rootHash = last'.ret
                  /\ ~tree'[Comp.t].isDirty]_vars

\* C25 witness: a root computation over five leaves has returned after
\* three reduction steps, through a layer of three digests.
C25_Witness ==
    /\ ComputeDone /\ Len(last.pre) = 5 /\ Len(last.layers) = 4
    /\ Len(last.layers[2]) = 3 /\ last.ret = tree[1].rootHash
    /\ Comp.pc = "idle"

\* C26: when an addNode was called and ended while a computeRootHash on
\* the same tree was pending, then once both have ended the tree is dirty
\* or its cached root is the root of its whole leaf sequence.
C26_NoCleanStaleRoot ==
    (Quiet /\ ComputeDone /\ last.raced) =>
        \/ isDirty(last.t)
        \/ tree[last.t].rootHash =
               computeRootHash([tree[last.t] EXCEPT !.isDirty = TRUE]).ret

====
